---------------------------- MODULE Spec2Model ----------------------------
(***************************************************************************)
(* Model of xray-steps-parser (src/streamlit.app.py): the cell parser, the *)
(* column resolver, the flattener, the collapse transform and the          *)
(* serializer, and the top-to-bottom run of the Streamlit script that      *)
(* chains them.                                                            *)
(*                                                                         *)
(* Text is a sequence of characters.  A character is a one-character       *)
(* string; the other characters are the atoms "TAB", "LF", "CR", "GRAVE"   *)
(* (U+0060), "NBSP" (U+00A0) and "BOM" (U+FEFF).  A DataFrame cell is a    *)
(* record [na, s]: na marks pandas' NaN (a missing cell), s is the text.   *)
(***************************************************************************)
EXTENDS Integers, Sequences, FiniteSets, TLC

VARIABLES
    pc,             \* position of the script run / of the harness
    uploaded,       \* the uploaded CSV: [header, records] of raw field texts
    collapse_opt,   \* the checkbox of line 189
    df_raw,         \* pd.read_csv(uploaded, sep=";", dtype=str)
    col_steps, col_key, col_sum,   \* lines 165-167
    missing,        \* line 169
    flat,           \* the table built by build_flat, then collapsed
    total_case, total_step,        \* the two metrics of lines 199-203
    csv_semicolon, csv_comma,      \* the two downloads, as byte sequences
    error,          \* the exception that ended the run, "" when none did
    cell, parsed,   \* harness of parse_manual_steps_cell: argument, result
    c_df, c_group, c_out           \* harness of collapse_repeats

vars == <<pc, uploaded, collapse_opt, df_raw, col_steps, col_key, col_sum,
          missing, flat, total_case, total_step, csv_semicolon, csv_comma,
          error, cell, parsed, c_df, c_group, c_out>>

script_vars == <<uploaded, collapse_opt, df_raw, col_steps, col_key, col_sum,
                 missing, flat, total_case, total_step, csv_semicolon,
                 csv_comma, error>>

(***************************************************************************)
(* Bounds of the model.                                                    *)
(***************************************************************************)
MaxRows == 3
MaxCols == 4
MaxElems == 2

(***************************************************************************)
(* Characters and text.                                                    *)
(***************************************************************************)
\* The printable ASCII characters in code-point order, U+0020 .. U+007E.
Ascii ==
    <<" ", "!", "\"", "#", "$", "%", "&", "'", "(", ")", "*", "+", ",", "-",
      ".", "/", "0", "1", "2", "3", "4", "5", "6", "7", "8", "9", ":", ";",
      "<", "=", ">", "?", "@", "A", "B", "C", "D", "E", "F", "G", "H", "I",
      "J", "K", "L", "M", "N", "O", "P", "Q", "R", "S", "T", "U", "V", "W",
      "X", "Y", "Z", "[", "\\", "]", "^", "_", "GRAVE", "a", "b", "c", "d", "e",
      "f", "g", "h", "i", "j", "k", "l", "m", "n", "o", "p", "q", "r", "s",
      "t", "u", "v", "w", "x", "y", "z", "{", "|", "}", "~">>

NBSP == "NBSP"
BOMChar == "BOM"

CodePoint ==
    [c \in {Ascii[i] : i \in 1..Len(Ascii)} \cup {"TAB", "LF", "CR", NBSP, BOMChar} |->
        CASE c = "TAB" -> 9
          [] c = "LF" -> 10
          [] c = "CR" -> 13
          [] c = NBSP -> 160
          [] c = BOMChar -> 65279
          [] OTHER -> 31 + (CHOOSE i \in 1..Len(Ascii) : Ascii[i] = c)]

\* str.lower() on one character.
LowerChar ==
    [c \in DOMAIN CodePoint |->
        IF CodePoint[c] >= 65 /\ CodePoint[c] <= 90
        THEN Ascii[CodePoint[c] + 32 - 31]
        ELSE c]

lower(s) == [i \in 1..Len(s) |-> LowerChar[s[i]]]

\* needle in hay (Python's substring test)
Contains(hay, needle) ==
    \E i \in 0..(Len(hay) - Len(needle)) :
        \A j \in 1..Len(needle) : hay[i + j] = needle[j]

\* The characters str.strip() removes and the regular expression \s matches.
PyWhitespace == {" ", "TAB", "LF", "CR", NBSP}

RECURSIVE LStrip(_)
LStrip(s) ==
    IF s # <<>> /\ Head(s) \in PyWhitespace THEN LStrip(Tail(s)) ELSE s

RECURSIVE RStrip(_)
RStrip(s) ==
    IF s # <<>> /\ s[Len(s)] \in PyWhitespace
    THEN RStrip(SubSeq(s, 1, Len(s) - 1))
    ELSE s

strip(s) == RStrip(LStrip(s))

\* s.replace(old, new) for one-character old and new
replace(s, old, new) == [i \in 1..Len(s) |-> IF s[i] = old THEN new ELSE s[i]]

\* re.sub(r"\s+", " ", s): every run of whitespace becomes one space
RECURSIVE CollapseWs(_)
CollapseWs(s) ==
    IF s = <<>> THEN <<>>
    ELSE IF Head(s) \in PyWhitespace
         THEN <<" ">> \o CollapseWs(LStrip(s))
         ELSE <<Head(s)>> \o CollapseWs(Tail(s))

\* F at the value of e, with e evaluated once
With(e, F(_)) == CHOOSE y \in {F(x) : x \in {e}} : TRUE

\* parts lo .. hi with sep between them, halving the range
RECURSIVE JoinRange(_, _, _, _)
JoinRange(parts, sep, lo, hi) ==
    IF lo > hi THEN <<>>
    ELSE IF lo = hi THEN parts[lo]
    ELSE JoinRange(parts, sep, lo, (lo + hi) \div 2) \o sep
            \o JoinRange(parts, sep, (lo + hi) \div 2 + 1, hi)

\* sep.join(parts)
Join(parts, sep) == With(parts, LAMBDA ps : JoinRange(ps, sep, 1, Len(ps)))

\* the concatenation of the parts
Flatten(parts) == Join(parts, <<>>)

(***************************************************************************)
(* Python values, as json.loads returns them.                              *)
(***************************************************************************)
PyNone == [t |-> "None", n |-> 0, s |-> <<>>, items |-> <<>>]
PyBool(b) == [t |-> "bool", n |-> IF b THEN 1 ELSE 0, s |-> <<>>, items |-> <<>>]
PyInt(n) == [t |-> "int", n |-> n, s |-> <<>>, items |-> <<>>]
PyStr(s) == [t |-> "str", n |-> 0, s |-> s, items |-> <<>>]
PyList(items) == [t |-> "list", n |-> 0, s |-> <<>>, items |-> items]
\* a dict is the sequence of its pairs [k |-> key text, v |-> value] in source order
PyDict(pairs) == [t |-> "dict", n |-> 0, s |-> <<>>, items |-> pairs]

\* d.get(key, default) on a dict: the last pair with that key wins, as json.loads
\* builds the dict
DictGet(d, key, default) ==
    LET hits == {i \in 1..Len(d.items) : d.items[i].k = key}
    IN  IF hits = {} THEN default
        ELSE d.items[CHOOSE i \in hits : \A j \in hits : j <= i].v

(***************************************************************************)
(* json.loads on the characters of the model: null, true, false, integers, *)
(* strings with the escapes \" \\ \/ \n \t \r, arrays and objects.  A      *)
(* result is [ok, v, i]: whether a value was read, the value, and the      *)
(* position after it.  Fractions, exponents and \u escapes are outside the *)
(* cells the model draws.                                                  *)
(***************************************************************************)
JsonWs == {" ", "TAB", "LF", "CR"}
Digit == {"0", "1", "2", "3", "4", "5", "6", "7", "8", "9"}
DigitVal(c) == CodePoint[c] - 48
JsonFail == [ok |-> FALSE, v |-> PyNone, i |-> 0]
JsonOk(v, i) == [ok |-> TRUE, v |-> v, i |-> i]
Escapes ==
    [c \in {"\"", "\\", "/", "n", "t", "r"} |->
        CASE c = "n" -> "LF" [] c = "t" -> "TAB" [] c = "r" -> "CR" [] OTHER -> c]

At(s, i) == IF i >= 1 /\ i <= Len(s) THEN s[i] ELSE "EOF"

RECURSIVE SkipWs(_, _)
SkipWs(s, i) == IF At(s, i) \in JsonWs THEN SkipWs(s, i + 1) ELSE i

\* the rest of a string whose opening quote is before position i
RECURSIVE ScanString(_, _, _)
ScanString(s, i, acc) ==
    LET c == At(s, i)
    IN  CASE c = "EOF" -> JsonFail
          [] c = "\"" -> JsonOk(PyStr(acc), i + 1)
          [] c = "\\" ->
                IF At(s, i + 1) \in DOMAIN Escapes
                THEN ScanString(s, i + 2, Append(acc, Escapes[At(s, i + 1)]))
                ELSE JsonFail
          [] c \in {"TAB", "LF", "CR"} -> JsonFail
          [] OTHER -> ScanString(s, i + 1, Append(acc, c))

RECURSIVE ScanDigits(_, _, _)
ScanDigits(s, i, acc) ==
    IF At(s, i) \in Digit
    THEN ScanDigits(s, i + 1, 10 * acc + DigitVal(s[i]))
    ELSE JsonOk(PyInt(acc), i)

\* -?(0|[1-9][0-9]*)
ScanNumber(s, i) ==
    LET neg == At(s, i) = "-"
        j == IF neg THEN i + 1 ELSE i
        r == IF At(s, j) = "0" THEN JsonOk(PyInt(0), j + 1)
             ELSE IF At(s, j) \in Digit THEN ScanDigits(s, j, 0)
             ELSE JsonFail
    IN  IF r.ok /\ neg THEN JsonOk(PyInt(0 - r.v.n), r.i) ELSE r

IsLiteral(s, i, word) ==
    \A j \in 1..Len(word) : At(s, i + j - 1) = word[j]

RECURSIVE ParseValue(_, _)
RECURSIVE ParseElems(_, _, _)
RECURSIVE ParseMembers(_, _, _)

\* the elements of an array, the first one starting at position i
ParseElems(s, i, acc) ==
    LET r == ParseValue(s, i)
        j == SkipWs(s, r.i)
    IN  IF ~r.ok THEN JsonFail
        ELSE CASE At(s, j) = "," -> ParseElems(s, SkipWs(s, j + 1), Append(acc, r.v))
               [] At(s, j) = "]" -> JsonOk(PyList(Append(acc, r.v)), j + 1)
               [] OTHER -> JsonFail

\* the members of an object, the first key's quote at position i
ParseMembers(s, i, acc) ==
    IF At(s, i) # "\"" THEN JsonFail
    ELSE
    LET k == ScanString(s, i + 1, <<>>)
        c == SkipWs(s, k.i)
        r == ParseValue(s, SkipWs(s, c + 1))
        j == SkipWs(s, r.i)
        more == Append(acc, [k |-> k.v.s, v |-> r.v])
    IN  IF ~k.ok \/ At(s, c) # ":" THEN JsonFail
        ELSE IF ~r.ok THEN JsonFail
        ELSE CASE At(s, j) = "," -> ParseMembers(s, SkipWs(s, j + 1), more)
               [] At(s, j) = "}" -> JsonOk(PyDict(more), j + 1)
               [] OTHER -> JsonFail

ParseValue(s, i) ==
    LET c == At(s, i)
    IN  CASE c = "\"" -> ScanString(s, i + 1, <<>>)
          [] c = "[" ->
                IF At(s, SkipWs(s, i + 1)) = "]"
                THEN JsonOk(PyList(<<>>), SkipWs(s, i + 1) + 1)
                ELSE ParseElems(s, SkipWs(s, i + 1), <<>>)
          [] c = "{" ->
                IF At(s, SkipWs(s, i + 1)) = "}"
                THEN JsonOk(PyDict(<<>>), SkipWs(s, i + 1) + 1)
                ELSE ParseMembers(s, SkipWs(s, i + 1), <<>>)
          [] c = "n" /\ IsLiteral(s, i, <<"n", "u", "l", "l">>) -> JsonOk(PyNone, i + 4)
          [] c = "t" /\ IsLiteral(s, i, <<"t", "r", "u", "e">>) -> JsonOk(PyBool(TRUE), i + 4)
          [] c = "f" /\ IsLiteral(s, i, <<"f", "a", "l", "s", "e">>) -> JsonOk(PyBool(FALSE), i + 5)
          [] c = "-" \/ c \in Digit -> ScanNumber(s, i)
          [] OTHER -> JsonFail

\* json.loads(s): one value, surrounded by JSON whitespace only; a failure
\* stands for the exception json.loads raises
json_loads(s) ==
    LET r == ParseValue(s, SkipWs(s, 1))
    IN  IF r.ok /\ SkipWs(s, r.i) = Len(s) + 1 THEN r ELSE JsonFail

(***************************************************************************)
(* str(x) and repr(x) of a decoded value.                                  *)
(***************************************************************************)
RECURSIVE DecDigits(_)
DecDigits(n) ==
    IF n < 10 THEN <<Ascii[n + 17]>>
    ELSE Append(DecDigits(n \div 10), Ascii[(n % 10) + 17])

IntText(n) == IF n < 0 THEN <<"-">> \o DecDigits(0 - n) ELSE DecDigits(n)

ReprChar(c, q) ==
    CASE c = "\\" -> <<"\\", "\\">>
      [] c = "LF" -> <<"\\", "n">>
      [] c = "TAB" -> <<"\\", "t">>
      [] c = "CR" -> <<"\\", "r">>
      [] c = NBSP -> <<"\\", "x", "a", "0">>
      [] c = q -> <<"\\", q>>
      [] OTHER -> <<c>>

\* repr of a str: single quotes, unless the text holds ' and no "
ReprStr(s) ==
    LET has(c) == \E i \in 1..Len(s) : s[i] = c
        q == IF has("'") /\ ~has("\"") THEN "\"" ELSE "'"
    IN  <<q>> \o Flatten([i \in 1..Len(s) |-> ReprChar(s[i], q)]) \o <<q>>

RECURSIVE Repr(_)
Repr(x) ==
    CASE x.t = "None" -> <<"N", "o", "n", "e">>
      [] x.t = "bool" -> IF x.n = 1 THEN <<"T", "r", "u", "e">>
                         ELSE <<"F", "a", "l", "s", "e">>
      [] x.t = "int" -> IntText(x.n)
      [] x.t = "str" -> ReprStr(x.s)
      [] x.t = "list" ->
            <<"[">> \o Join([i \in 1..Len(x.items) |-> Repr(x.items[i])], <<",", " ">>)
                    \o <<"]">>
      [] x.t = "dict" ->
            <<"{">> \o Join([i \in 1..Len(x.items) |->
                                ReprStr(x.items[i].k) \o <<":", " ">> \o Repr(x.items[i].v)],
                            <<",", " ">>)
                    \o <<"}">>

str(x) == IF x.t = "str" THEN x.s ELSE Repr(x)

(***************************************************************************)
(* Cell Parser.                                                            *)
(***************************************************************************)
_clean_text(x) ==
    LET s == IF x.t # "None" THEN str(x) ELSE <<>>
    IN  strip(CollapseWs(s))

K_fields == <<"f", "i", "e", "l", "d", "s">>
K_index == <<"i", "n", "d", "e", "x">>
K_Action == <<"A", "c", "t", "i", "o", "n">>
K_Data == <<"D", "a", "t", "a">>
K_Expected == <<"E", "x", "p", "e", "c", "t", "e", "d", " ", "R", "e", "s", "u", "l", "t">>

\* lines 67-70: the fields object of one array element; a non-dict has no .get
ItemFields(item) ==
    IF item.t = "dict" THEN DictGet(item, K_fields, PyDict(<<>>)) ELSE PyDict(<<>>)

\* lines 67-76 raise AttributeError: fields.get on a non-dict fields value
\* (lines 68-70), item.get("index") on a non-dict element (line 72)
ItemRaises(item) == ItemFields(item).t # "dict" \/ item.t # "dict"

\* lines 71-76: the step appended for one array element
ItemStep(item) ==
    LET fields == ItemFields(item)
    IN  [step |-> DictGet(item, K_index, PyNone),
         action |-> _clean_text(DictGet(fields, K_Action, PyStr(<<>>))),
         data |-> _clean_text(DictGet(fields, K_Data, PyStr(<<>>))),
         expected |-> _clean_text(DictGet(fields, K_Expected, PyStr(<<>>)))]

Returned(out) == [raised |-> FALSE, out |-> out]
Raised == [raised |-> TRUE, out |-> <<>>]

\* lines 64-77
StepsOf(arr) ==
    IF arr.t # "list" THEN Returned(<<>>)
    ELSE IF \E i \in 1..Len(arr.items) : ItemRaises(arr.items[i]) THEN Raised
    ELSE Returned([i \in 1..Len(arr.items) |-> ItemStep(arr.items[i])])

\* Decode as it would be with the quote replacement applied before the first
\* attempt
Decode_relaxed_first(stripped) ==
    json_loads(replace(replace(stripped, NBSP, " "), "'", "\""))

\* lines 53-62: the two-stage decode of the stripped text
Decode(stripped) ==
    LET s == replace(stripped, NBSP, " ")
        strict == json_loads(s)
    IN  IF strict.ok THEN strict
        ELSE json_loads(replace(s, "'", "\""))

parse_manual_steps_cell(c) ==
    IF c.na \/ strip(c.s) = <<>> THEN Returned(<<>>)
    ELSE LET arr == Decode(strip(c.s))
         IN  IF ~arr.ok THEN Returned(<<>>) ELSE StepsOf(arr.v)

(***************************************************************************)
(* The cells the model draws.  An array cell is "[" e1 sep e2 ... "]" over *)
(* the element texts below; the other cells are not arrays.  Every cell is *)
(* also drawn with white space around it.                                  *)
(***************************************************************************)
\* the canonical step object
E_std ==
    <<"{", "\"", "i", "n", "d", "e", "x", "\"", ":", "1", ",", "\"", "f", "i", "e", "l", "d", "s", "\"", ":", "{", "\"", "A", "c", "t", "i", "o", "n", "\"", ":", "\"", "O", "p", "e", "n", " ", "a", "p", "p", "\"", ",", "\"", "D", "a", "t", "a", "\"", ":", "\"", "\"", ",", "\"", "E", "x", "p", "e", "c", "t", "e", "d", " ", "R", "e", "s", "u", "l", "t", "\"", ":", "\"", "A", "p", "p", " ", "o", "p", "e", "n", "s", "\"", "}", "}">>
\* single-quoted, as some exports write it
E_single ==
    <<"{", "'", "i", "n", "d", "e", "x", "'", ":", "2", ",", "'", "f", "i", "e", "l", "d", "s", "'", ":", "{", "'", "A", "c", "t", "i", "o", "n", "'", ":", "'", "A", "'", "}", "}">>
\* strict JSON with an apostrophe inside a string
E_apos ==
    <<"{", "\"", "i", "n", "d", "e", "x", "\"", ":", "3", ",", "\"", "f", "i", "e", "l", "d", "s", "\"", ":", "{", "\"", "A", "c", "t", "i", "o", "n", "\"", ":", "\"", "i", "t", "'", "s", "\"", "}", "}">>
\* a run of spaces and an escaped line feed
E_spaces ==
    <<"{", "\"", "i", "n", "d", "e", "x", "\"", ":", "4", ",", "\"", "f", "i", "e", "l", "d", "s", "\"", ":", "{", "\"", "A", "c", "t", "i", "o", "n", "\"", ":", "\"", "C", "l", "i", "c", "k", " ", " ", "t", "h", "e", "\\", "n", " ", "b", "u", "t", "t", "o", "n", "\"", "}", "}">>
\* no fields member
E_bare ==
    <<"{", "\"", "i", "n", "d", "e", "x", "\"", ":", "5", "}">>
\* no index member, a number as Data
E_noindex ==
    <<"{", "\"", "f", "i", "e", "l", "d", "s", "\"", ":", "{", "\"", "D", "a", "t", "a", "\"", ":", "7", "}", "}">>
\* fields is null
E_fields_null ==
    <<"{", "\"", "i", "n", "d", "e", "x", "\"", ":", "6", ",", "\"", "f", "i", "e", "l", "d", "s", "\"", ":", "n", "u", "l", "l", "}">>
\* fields is a string
E_fields_str ==
    <<"{", "\"", "i", "n", "d", "e", "x", "\"", ":", "6", ",", "\"", "f", "i", "e", "l", "d", "s", "\"", ":", "\"", "x", "\"", "}">>
\* a number
E_num ==
    <<"7">>
\* null
E_null ==
    <<"n", "u", "l", "l">>
\* a string
E_str ==
    <<"\"", "x", "\"">>
\* a nested array
E_arr ==
    <<"[", "]">>

B_empty == <<>>
B_garbage == <<"n", "o", "t", " ", "j", "s", "o", "n">>
B_null == <<"n", "u", "l", "l">>
B_object == <<"{", "\"", "i", "n", "d", "e", "x", "\"", ":", "1", "}">>
B_open == <<"[", "{", "\"", "i", "n", "d", "e", "x", "\"", ":", "1", "}">>

Elements ==
    {E_std, E_single, E_apos, E_spaces, E_bare, E_noindex, E_fields_null,
     E_fields_str, E_num, E_null, E_str, E_arr}
Separators == {<<",">>, <<",", NBSP>>}
Pads == {<<>>, <<" ">>, <<NBSP>>}

SeqsUpTo(S, n) == UNION {[1..k -> S] : k \in 0..n}

ArrayText(elems, sep) == <<"[">> \o Join(elems, sep) \o <<"]">>

Bodies ==
    {ArrayText(es, sep) : es \in SeqsUpTo(Elements, MaxElems), sep \in Separators}
        \cup {B_empty, B_garbage, B_null, B_object, B_open}

NaN == [na |-> TRUE, s |-> <<>>]
Text(s) == [na |-> FALSE, s |-> s]

Cells == {NaN} \cup {Text(p \o b \o p) : p \in Pads, b \in Bodies}

(***************************************************************************)
(* Harness of the cell parser: one call on one drawn cell.                 *)
(***************************************************************************)
NoTable == [header |-> <<>>, records |-> <<>>]

ScriptIdle ==
    /\ uploaded = NoTable
    /\ collapse_opt = FALSE
    /\ df_raw = <<>>
    /\ col_steps = <<>> /\ col_key = <<>> /\ col_sum = <<>>
    /\ missing = <<>>
    /\ flat = <<>>
    /\ total_case = 0 /\ total_step = 0
    /\ csv_semicolon = <<>> /\ csv_comma = <<>>
    /\ error = ""

InitParse ==
    /\ pc = "call_parse"
    /\ cell \in Cells
    /\ parsed = Returned(<<>>)
    /\ ScriptIdle
    /\ c_df = <<>> /\ c_group = "" /\ c_out = <<>>

ParseCell ==
    /\ pc = "call_parse"
    /\ parsed' = parse_manual_steps_cell(cell)
    /\ pc' = "return_parse"
    /\ UNCHANGED <<script_vars, cell, c_df, c_group, c_out>>

NextParse == ParseCell

SpecParse == InitParse /\ [][NextParse]_vars

(***************************************************************************)
(* Column Resolver.                                                        *)
(***************************************************************************)
\* lines 36-42; the empty text is the unresolved marker
RECURSIVE find_col(_, _)
find_col(cols, needle) ==
    IF cols = <<>> THEN <<>>
    ELSE IF Contains(lower(Head(cols)), lower(needle)) THEN Head(cols)
    ELSE find_col(Tail(cols), needle)

N_steps == <<"M", "a", "n", "u", "a", "l", " ", "T", "e", "s", "t", " ", "S", "t", "e", "p", "s">>
N_issue_key == <<"I", "s", "s", "u", "e", " ", "k", "e", "y">>
N_key == <<"K", "e", "y">>
N_summary == <<"S", "u", "m", "m", "a", "r", "y">>

\* Python's  a or b  on two texts
Or(a, b) == IF a # <<>> THEN a ELSE b

\* DetectKey as it would be with the two needles in the other order
DetectKey_key_first(cols) == Or(find_col(cols, N_key), find_col(cols, N_issue_key))

\* lines 165-167
DetectSteps(cols) == find_col(cols, N_steps)
DetectSummary(cols) == find_col(cols, N_summary)
DetectKey(cols) == Or(find_col(cols, N_issue_key), find_col(cols, N_key))

\* Missing as it would be with elif in place of the second and third if
Missing_first_only(cs, ck, cm) ==
    IF cs = <<>> THEN <<"Manual Test Steps">>
    ELSE IF ck = <<>> THEN <<"Issue key">>
    ELSE IF cm = <<>> THEN <<"Summary">>
    ELSE <<>>

\* lines 169-175
Missing(cs, ck, cm) ==
    (IF cs = <<>> THEN <<"Manual Test Steps">> ELSE <<>>)
        \o (IF ck = <<>> THEN <<"Issue key">> ELSE <<>>)
        \o (IF cm = <<>> THEN <<"Summary">> ELSE <<>>)

(***************************************************************************)
(* Tables.  A DataFrame read from the upload is [columns, rows], a row the *)
(* sequence of its cells in column order.  The flat table is a sequence of *)
(* rows, each a function from the seven output column names to a value:    *)
(* "Case #" a record [na, n], "Issue key" and "Summary" cells, "Step #" a  *)
(* decoded value (None when there is none), the last three texts.          *)
(***************************************************************************)
\* fields pandas reads as NaN (a part of its default list)
NaValues ==
    {<<>>, <<"N", "A">>, <<"N", "/", "A">>, <<"N", "U", "L", "L">>,
     <<"n", "u", "l", "l">>, <<"N", "a", "N">>, <<"n", "a", "n">>}

\* line 157: dtype=str keeps every field as text, and the default NA filter
\* turns the empty field, among others, into NaN
read_csv(file) ==
    [columns |-> file.header,
     rows |-> [i \in 1..Len(file.records) |->
                [j \in 1..Len(file.header) |->
                    IF file.records[i][j] \in NaValues THEN NaN
                    ELSE Text(file.records[i][j])]]]

ColIndex(df, col) == CHOOSE j \in 1..Len(df.columns) : df.columns[j] = col

\* r.get(col) on a row of df
Get(df, r, col) == r[ColIndex(df, col)]

FlatColumns ==
    <<"Case #", "Issue key", "Summary", "Step #", "Action", "Data",
      "Expected Result">>

NoCase == [na |-> TRUE, n |-> 0]
Case(n) == [na |-> FALSE, n |-> n]

FlatRow(case, key, summ, step, action, data, expected) ==
    ("Case #" :> case) @@ ("Issue key" :> key) @@ ("Summary" :> summ)
        @@ ("Step #" :> step) @@ ("Action" :> action) @@ ("Data" :> data)
        @@ ("Expected Result" :> expected)

(***************************************************************************)
(* Flattener.                                                              *)
(***************************************************************************)
\* lines 90-108: the rows one input row appends, before numbering
RowsOf(key, summ, steps) ==
    IF steps = <<>>
    THEN <<FlatRow(NoCase, key, summ, PyNone, <<>>, <<>>, <<>>)>>
    ELSE [i \in 1..Len(steps) |->
            FlatRow(NoCase, key, summ, steps[i].step, steps[i].action,
                    steps[i].data, steps[i].expected)]

\* pd.unique: the distinct values in order of first appearance
RECURSIVE UniqueUpTo(_, _)
UniqueUpTo(xs, n) ==
    IF n = 0 THEN <<>>
    ELSE With(UniqueUpTo(xs, n - 1),
              LAMBDA init : IF \E i \in 1..Len(init) : init[i] = xs[n] THEN init
                            ELSE Append(init, xs[n]))

Unique(xs) == UniqueUpTo(xs, Len(xs))

IsNotNa(c) == ~c.na

\* case_map as it would be with enumerate's i instead of i + 1
case_map_from_zero(uniques, key) ==
    With(SelectSeq(uniques, IsNotNa),
         LAMBDA named : IF \E i \in 1..Len(named) : named[i] = key
                        THEN Case((CHOOSE i \in 1..Len(named) : named[i] = key) - 1)
                        ELSE NoCase)

\* line 115: the distinct non-NaN keys numbered from 1 in order of appearance
\* (a key the map does not hold maps to NaN, line 116)
case_map(uniques, key) ==
    With(SelectSeq(uniques, IsNotNa),
         LAMBDA named : IF \E i \in 1..Len(named) : named[i] = key
                        THEN Case(CHOOSE i \in 1..Len(named) : named[i] = key)
                        ELSE NoCase)

Failed(e) == [raised |-> e, flat |-> <<>>]

\* lines 109-121, on the rows lines 88-108 collected
Numbered(rows, uniques) ==
    \* line 112: a DataFrame built from no rows has no "Issue key" column
    IF rows = <<>> THEN Failed("KeyError")
    \* line 112: pd.Categorical refuses a NaN among its categories
    ELSE IF \E i \in 1..Len(uniques) : uniques[i].na THEN Failed("ValueError")
    ELSE [raised |-> "",
          flat |-> [i \in 1..Len(rows) |->
                      [rows[i] EXCEPT !["Case #"] =
                          case_map(uniques, rows[i]["Issue key"])]]]

Number(rows) ==
    With(Unique([i \in 1..Len(rows) |-> rows[i]["Issue key"]]),
         LAMBDA uniques : Numbered(rows, uniques))

\* lines 88-108: the rows of every input row, given the parse of its steps cell
Collect(df, ck, cm, steps) ==
    Flatten([i \in 1..Len(df.rows) |->
                RowsOf(Get(df, df.rows[i], ck), Get(df, df.rows[i], cm),
                       steps[i].out)])

\* lines 87-121; an exception of the cell parser (line 92) ends the call
build_flat(df, cs, ck, cm) ==
    With([i \in 1..Len(df.rows) |->
            parse_manual_steps_cell(Get(df, df.rows[i], cs))],
         LAMBDA steps :
            IF \E i \in 1..Len(df.rows) : steps[i].raised
            THEN Failed("AttributeError")
            ELSE With(Collect(df, ck, cm, steps), LAMBDA rows : Number(rows)))

(***************************************************************************)
(* Collapse Transform.                                                     *)
(***************************************************************************)
\* df.columns of a table that has rows
ColumnsOf(df) == DOMAIN df[1]

\* Groups as it would be if a group were a run of adjacent equal values
Groups_by_run(df, group_col) ==
    With([i \in 1..Len(df) |-> df[i][group_col]],
         LAMBDA values :
            With(SelectSeq([i \in 1..Len(df) |-> i],
                           LAMBDA i : ~values[i].na
                                        /\ (i = 1 \/ values[i - 1] # values[i])),
                 LAMBDA starts :
                    [k \in 1..Len(starts) |->
                        SelectSeq([i \in 1..Len(df) |-> i],
                                  LAMBDA i : /\ i >= starts[k]
                                             /\ \A j \in starts[k]..i :
                                                    values[j] = values[starts[k]])]))

\* out.groupby(group_col, sort=False).groups: one entry per distinct value
\* that is not NaN (groupby drops the NaN keys), in order of first appearance,
\* holding the labels of its rows in table order
Groups(df, group_col) ==
    With(SelectSeq(Unique([i \in 1..Len(df) |-> df[i][group_col]]), IsNotNa),
         LAMBDA keys :
            [k \in 1..Len(keys) |->
                SelectSeq([i \in 1..Len(df) |-> i],
                          LAMBDA i : df[i][group_col] = keys[k])])

\* Blank as it would be with the column list left out of out.loc[...]
Blank_whole_row(row, cols_to_blank) ==
    [c \in DOMAIN row |-> Text(<<>>)]

Blank(row, cols_to_blank) ==
    [c \in DOMAIN row |-> IF c \in cols_to_blank THEN Text(<<>>) ELSE row[c]]

\* lines 124-133
collapse_repeats(df, group_col, cols_to_blank) ==
    IF df = <<>> \/ group_col \notin ColumnsOf(df) THEN df
    ELSE With(Groups(df, group_col),
              LAMBDA groups :
                [i \in 1..Len(df) |->
                    \* idx[1:] of some group holds the row's label
                    IF \E k \in 1..Len(groups) :
                            \E p \in 2..Len(groups[k]) : groups[k][p] = i
                    THEN Blank(df[i], cols_to_blank)
                    ELSE df[i]])

(***************************************************************************)
(* Serializer.                                                             *)
(***************************************************************************)
ColumnText ==
    ("Case #" :> <<"C", "a", "s", "e", " ", "#">>) @@ ("Issue key" :> <<"I", "s", "s", "u", "e", " ", "k", "e", "y">>) @@ ("Summary" :> <<"S", "u", "m", "m", "a", "r", "y">>)
        @@ ("Step #" :> <<"S", "t", "e", "p", " ", "#">>) @@ ("Action" :> <<"A", "c", "t", "i", "o", "n">>) @@ ("Data" :> <<"D", "a", "t", "a">>)
        @@ ("Expected Result" :> <<"E", "x", "p", "e", "c", "t", "e", "d", " ", "R", "e", "s", "u", "l", "t">>)

\* csv.QUOTE_MINIMAL: a field holding the delimiter, a quote or a line break
\* is quoted, its quotes doubled
Quoted(field, sep) ==
    IF \E i \in 1..Len(field) : field[i] \in {sep, "\"", "LF", "CR"}
    THEN <<"\"">> \o Flatten([i \in 1..Len(field) |->
                        IF field[i] = "\"" THEN <<"\"", "\"">> ELSE <<field[i]>>])
                  \o <<"\"">>
    ELSE field

\* a numeric column that holds a NaN is a float column
IsFloatCase(df) == \E i \in 1..Len(df) : df[i]["Case #"].na
IsFloatStep(df) ==
    /\ \A i \in 1..Len(df) : df[i]["Step #"].t \in {"int", "None"}
    /\ \E i \in 1..Len(df) : df[i]["Step #"].t = "int"
    /\ \E i \in 1..Len(df) : df[i]["Step #"].t = "None"

\* one cell as to_csv writes it, NaN and None as the empty field
CellText(df, i, c) ==
    LET v == df[i][c]
    IN  CASE c = "Case #" ->
                IF v.na THEN <<>>
                ELSE IntText(v.n) \o (IF IsFloatCase(df) THEN <<".", "0">> ELSE <<>>)
          [] c \in {"Issue key", "Summary"} -> IF v.na THEN <<>> ELSE v.s
          [] c = "Step #" ->
                IF v.t = "None" THEN <<>>
                ELSE str(v) \o (IF IsFloatStep(df) THEN <<".", "0">> ELSE <<>>)
          [] OTHER -> v

\* df.to_csv(index=False, sep=sep, encoding="utf-8-sig") with no path: the text
\* is returned as a str and the encoding is not applied to it
to_csv(df, sep) ==
    LET Line(fields) == Join(fields, <<sep>>) \o <<"LF">>
        header == Line([k \in 1..Len(FlatColumns) |->
                            Quoted(ColumnText[FlatColumns[k]], sep)])
        body == [i \in 1..Len(df) |->
                    Line([k \in 1..Len(FlatColumns) |->
                            Quoted(CellText(df, i, FlatColumns[k]), sep)])]
    IN  header \o Flatten(body)

\* UTF-8 of one character
Utf8Char(c) ==
    LET cp == CodePoint[c]
    IN  IF cp < 128 THEN <<cp>>
        ELSE IF cp < 2048 THEN <<192 + (cp \div 64), 128 + (cp % 64)>>
        ELSE <<224 + (cp \div 4096), 128 + ((cp \div 64) % 64), 128 + (cp % 64)>>

Utf8(s) == Flatten([i \in 1..Len(s) |-> Utf8Char(s[i])])

\* str.encode("utf-8-sig"): the encoded byte-order mark, then UTF-8
encode_utf_8_sig(s) == Utf8Char(BOMChar) \o Utf8(s)

\* df_to_csv_bom as it would be if to_csv applied its encoding argument to the
\* text it returns, which would then start with U+FEFF
df_to_csv_bom_marked_text(df, sep) == encode_utf_8_sig(<<BOMChar>> \o to_csv(df, sep))

\* lines 136-139
df_to_csv_bom(df, sep) == encode_utf_8_sig(to_csv(df, sep))

(***************************************************************************)
(* The uploads the model draws: a header over the column names below and   *)
(* one record per exported issue, each column carrying what the export     *)
(* writes into it.                                                         *)
(***************************************************************************)
C_issue_key == <<"I", "s", "s", "u", "e", " ", "k", "e", "y">>
C_project_key == <<"P", "r", "o", "j", "e", "c", "t", " ", "k", "e", "y">>
C_summary == <<"S", "U", "M", "M", "A", "R", "Y">>
C_steps == <<"C", "u", "s", "t", "o", "m", " ", "f", "i", "e", "l", "d", " ", "(", "M", "a", "n", "u", "a", "l", " ", "T", "e", "s", "t", " ", "S", "t", "e", "p", "s", ")">>
C_status == <<"S", "t", "a", "t", "u", "s">>

ColumnNames == {C_issue_key, C_project_key, C_summary, C_steps, C_status}

\* the headers: up to MaxCols column names, none twice
Headers ==
    {h \in SeqsUpTo(ColumnNames, MaxCols) :
        h # <<>> /\ \A i, j \in 1..Len(h) : h[i] = h[j] => i = j}

StandardHeader == <<C_issue_key, C_summary, C_steps>>

\* a second step object, whose texts hold both download delimiters
E_delims ==
    <<"{", "\"", "i", "n", "d", "e", "x", "\"", ":", "2", ",", "\"", "f", "i", "e", "l", "d", "s", "\"", ":", "{", "\"", "A", "c", "t", "i", "o", "n", "\"", ":", "\"", "T", "y", "p", "e", " ", "a", ";", "b", "\"", ",", "\"", "D", "a", "t", "a", "\"", ":", "\"", "x", ",", " ", "y", "\"", "}", "}">>

KeyFields == {<<>>, <<"T", "1">>, <<"T", "2">>}
StepFields == {<<>>, ArrayText(<<E_std, E_delims>>, <<",">>), ArrayText(<<E_num>>, <<",">>)}
SummaryField == <<" ", "L", "o", "g", " ", " ", "i", "n">>

Issues == [key : KeyFields, steps : StepFields]

FieldOf(col, issue) ==
    CASE col = C_issue_key -> issue.key
      [] col = C_project_key -> <<"P", "R", "J">>
      [] col = C_summary -> SummaryField
      [] col = C_steps -> issue.steps
      [] OTHER -> <<"D", "o", "n", "e">>

Export(header, issues) ==
    [header |-> header,
     records |-> [i \in 1..Len(issues) |->
                    [j \in 1..Len(header) |-> FieldOf(header[j], issues[i])]]]

(***************************************************************************)
(* One run of the script, lines 149-224.                                   *)
(***************************************************************************)
HarnessIdle ==
    /\ cell = NaN /\ parsed = Returned(<<>>)
    /\ c_df = <<>> /\ c_group = "" /\ c_out = <<>>

\* line 149: a file has been uploaded.  Either the header varies over a table
\* of at most one record, or the records vary under the standard header.
Init ==
    /\ pc = "uploaded"
    /\ \/ \E h \in Headers, t \in SeqsUpTo(Issues, 1) : uploaded = Export(h, t)
       \/ \E t \in SeqsUpTo(Issues, MaxRows) : uploaded = Export(StandardHeader, t)
    /\ collapse_opt = FALSE
    /\ df_raw = <<>>
    /\ col_steps = <<>> /\ col_key = <<>> /\ col_sum = <<>>
    /\ missing = <<>>
    /\ flat = <<>>
    /\ total_case = 0 /\ total_step = 0
    /\ csv_semicolon = <<>> /\ csv_comma = <<>>
    /\ error = ""
    /\ HarnessIdle

\* lines 155-162
ReadCsv ==
    /\ pc = "uploaded"
    /\ df_raw' = read_csv(uploaded)
    /\ pc' = "loaded"
    /\ UNCHANGED <<uploaded, collapse_opt, col_steps, col_key, col_sum, missing,
                   flat, total_case, total_step, csv_semicolon, csv_comma,
                   error, cell, parsed, c_df, c_group, c_out>>

\* lines 164-186: st.error lists the missing labels and st.stop ends the run
DetectColumns ==
    /\ pc = "loaded"
    /\ col_steps' = DetectSteps(df_raw.columns)
    /\ col_key' = DetectKey(df_raw.columns)
    /\ col_sum' = DetectSummary(df_raw.columns)
    /\ missing' = Missing(col_steps', col_key', col_sum')
    /\ pc' = IF missing' # <<>> THEN "stopped" ELSE "detected"
    /\ UNCHANGED <<uploaded, collapse_opt, df_raw, flat, total_case, total_step,
                   csv_semicolon, csv_comma, error, cell, parsed, c_df,
                   c_group, c_out>>

\* lines 188-192: the checkbox is read, then the flat table is built
BuildFlat ==
    /\ pc = "detected"
    /\ \E opt \in BOOLEAN : collapse_opt' = opt
    /\ \E r \in {build_flat(df_raw, col_steps, col_key, col_sum)} :
           /\ flat' = r.flat
           /\ error' = r.raised
           /\ pc' = IF r.raised # "" THEN "crashed" ELSE "flattened"
    /\ UNCHANGED <<uploaded, df_raw, col_steps, col_key, col_sum, missing,
                   total_case, total_step, csv_semicolon, csv_comma, cell,
                   parsed, c_df, c_group, c_out>>

\* lines 194-196
Collapse ==
    /\ pc = "flattened"
    /\ flat' = IF collapse_opt
               THEN collapse_repeats(flat, "Issue key", {"Issue key", "Summary"})
               ELSE flat
    /\ pc' = "collapsed"
    /\ UNCHANGED <<uploaded, collapse_opt, df_raw, col_steps, col_key, col_sum,
                   missing, total_case, total_step, csv_semicolon, csv_comma,
                   error, cell, parsed, c_df, c_group, c_out>>

\* lines 198-206: the two metrics and the table
ShowMetrics ==
    /\ pc = "collapsed"
    /\ total_case' = Cardinality({flat[i]["Issue key"] : i \in 1..Len(flat)}
                                    \ {NaN, Text(<<>>)})
    /\ total_step' = Cardinality({i \in 1..Len(flat) : flat[i]["Step #"].t # "None"})
    /\ pc' = "shown"
    /\ UNCHANGED <<uploaded, collapse_opt, df_raw, col_steps, col_key, col_sum,
                   missing, flat, csv_semicolon, csv_comma, error, cell, parsed,
                   c_df, c_group, c_out>>

\* lines 208-224: the data of the two download buttons
Download ==
    /\ pc = "shown"
    /\ csv_semicolon' = df_to_csv_bom(flat, ";")
    /\ csv_comma' = df_to_csv_bom(flat, ",")
    /\ pc' = "done"
    /\ UNCHANGED <<uploaded, collapse_opt, df_raw, col_steps, col_key, col_sum,
                   missing, flat, total_case, total_step, error, cell, parsed,
                   c_df, c_group, c_out>>

Next ==
    \/ ReadCsv
    \/ DetectColumns
    \/ BuildFlat
    \/ Collapse
    \/ ShowMetrics
    \/ Download

Spec == Init /\ [][Next]_vars

(***************************************************************************)
(* Harness of the collapse transform: one call on one drawn table, with    *)
(* the columns to blank of line 196.                                       *)
(***************************************************************************)
CollapseKeys == {NaN, Text(<<"T", "1">>), Text(<<"T", "2">>)}
CollapseSummaries == {Text(<<"S", "1">>), Text(<<"S", "2">>)}
GroupColumns == {"Issue key", "Summary", "Test key"}
ColsToBlank == {"Issue key", "Summary"}

\* a flat table with the given keys and summaries, numbered as line 116 does
TableOf(ks) ==
    LET uniques == Unique([i \in 1..Len(ks) |-> ks[i][1]])
    IN  [i \in 1..Len(ks) |->
            FlatRow(case_map(uniques, ks[i][1]), ks[i][1], ks[i][2],
                    PyInt(i), <<"a">>, <<>>, <<>>)]

InitCollapse ==
    /\ pc = "call_collapse"
    /\ \E ks \in SeqsUpTo(CollapseKeys \X CollapseSummaries, MaxRows) :
            c_df = TableOf(ks)
    /\ c_group \in GroupColumns
    /\ c_out = <<>>
    /\ cell = NaN /\ parsed = Returned(<<>>)
    /\ ScriptIdle

CollapseCall ==
    /\ pc = "call_collapse"
    /\ c_out' = collapse_repeats(c_df, c_group, ColsToBlank)
    /\ pc' = "return_collapse"
    /\ UNCHANGED <<script_vars, cell, parsed, c_df, c_group>>

NextCollapse == CollapseCall

SpecCollapse == InitCollapse /\ [][NextCollapse]_vars

(***************************************************************************)
(* Properties of the flattener (checked under Spec).                       *)
(***************************************************************************)
AfterBuildFlat == pc \in {"flattened", "crashed"}

KeyCell(i) == Get(df_raw, df_raw.rows[i], col_key)
SummaryCell(i) == Get(df_raw, df_raw.rows[i], col_sum)
StepsCell(i) == Get(df_raw, df_raw.rows[i], col_steps)

\* the number of elements of the array a steps cell decodes to, 0 when it
\* decodes to no array
StepCount(c) ==
    IF c.na \/ strip(c.s) = <<>> THEN 0
    ELSE With(Decode(strip(c.s)),
              LAMBDA a : IF a.ok /\ a.v.t = "list" THEN Len(a.v.items) ELSE 0)

\* the number of output rows input row i contributes
BlockLen(i) == IF StepCount(StepsCell(i)) = 0 THEN 1 ELSE StepCount(StepsCell(i))

RECURSIVE BlockStart(_)
BlockStart(i) == IF i = 1 THEN 0 ELSE BlockStart(i - 1) + BlockLen(i - 1)

IsPlaceholder(row) ==
    /\ row["Step #"] = PyNone
    /\ row["Action"] = <<>> /\ row["Data"] = <<>> /\ row["Expected Result"] = <<>>

\* C1: for every table whose three columns are resolved, zero rows included,
\* build_flat returns; each input row contributes, in input order, one
\* placeholder row when its steps cell holds no steps and one row per step
\* otherwise, key and summary copied verbatim; so no record is dropped.
C1_EveryRecordIsFlattened ==
    AfterBuildFlat =>
        /\ pc = "flattened"
        /\ Len(flat) = BlockStart(Len(df_raw.rows) + 1)
        /\ Len(flat) >= Len(df_raw.rows)
        /\ \A i \in 1..Len(df_raw.rows) :
            /\ \A k \in 1..BlockLen(i) :
                /\ flat[BlockStart(i) + k]["Issue key"] = KeyCell(i)
                /\ flat[BlockStart(i) + k]["Summary"] = SummaryCell(i)
            /\ StepCount(StepsCell(i)) = 0 => IsPlaceholder(flat[BlockStart(i) + 1])

\* the first row holding the key of row i
FirstWithKey(i) ==
    CHOOSE j \in 1..i :
        /\ flat[j]["Issue key"] = flat[i]["Issue key"]
        /\ \A h \in 1..(j - 1) : flat[h]["Issue key"] # flat[i]["Issue key"]

\* the distinct keys that are not missing among rows 1 .. n
KeysUpTo(n) == {flat[j]["Issue key"] : j \in 1..n} \ {NaN}

\* C2: in the output of build_flat the i-th distinct key in order of first
\* occurrence has Case # i, counted from 1 without gaps; rows that share a key
\* share the Case #, rows with different keys never do, also when a key comes
\* back after another one.
C2_CaseNumbersFollowFirstOccurrence ==
    pc = "flattened" =>
        /\ \A i \in 1..Len(flat) :
            ~flat[i]["Issue key"].na =>
                flat[i]["Case #"] = Case(Cardinality(KeysUpTo(FirstWithKey(i))))
        /\ \A i, j \in 1..Len(flat) :
            (~flat[i]["Issue key"].na /\ ~flat[j]["Issue key"].na) =>
                ((flat[i]["Issue key"] = flat[j]["Issue key"])
                    <=> (flat[i]["Case #"] = flat[j]["Case #"]))
        /\ {flat[i]["Case #"].n : i \in {j \in 1..Len(flat) : ~flat[j]["Issue key"].na}}
                = 1..Cardinality(KeysUpTo(Len(flat)))

\* a key that comes back after another key keeps its number
C2_Witness ==
    /\ pc = "flattened"
    /\ \E i, j, k \in 1..Len(flat) :
        /\ i < j /\ j < k
        /\ flat[i]["Issue key"] = flat[k]["Issue key"]
        /\ flat[i]["Issue key"] # flat[j]["Issue key"]
        /\ flat[i]["Case #"] = Case(1)
        /\ flat[j]["Case #"] = Case(2)
        /\ flat[k]["Case #"] = Case(1)

HasMissingKey == \E i \in 1..Len(df_raw.rows) : KeyCell(i).na
NoCellRaises ==
    \A i \in 1..Len(df_raw.rows) : ~parse_manual_steps_cell(StepsCell(i)).raised

\* C3: in the output of build_flat a row whose Issue key is empty or absent
\* has no Case #, and the other rows are numbered as if it were not there.
C3_MissingKeyHasNoCaseNumber ==
    (AfterBuildFlat /\ HasMissingKey /\ NoCellRaises) =>
        /\ pc = "flattened"
        /\ \E i \in 1..Len(flat) : flat[i]["Issue key"].na
        /\ \A i \in 1..Len(flat) :
            IF flat[i]["Issue key"].na THEN flat[i]["Case #"] = NoCase
            ELSE flat[i]["Case #"] = Case(Cardinality(KeysUpTo(FirstWithKey(i))))

(***************************************************************************)
(* Properties of the cell parser (checked under SpecParse).                *)
(***************************************************************************)
\* the text handed to the first decode attempt (line 53)
Norm == replace(strip(cell.s), NBSP, " ")
Strict == json_loads(Norm)
Relaxed == json_loads(replace(Norm, "'", "\""))
Blankish == cell.na \/ strip(cell.s) = <<>>

HasApostrophe(s) == \E i \in 1..Len(s) : s[i] = "'"

\* C4: the decode has two stages, strict JSON first and the single-quote
\* replacement only when the strict stage fails; a cell that is missing, empty,
\* all white space or fails both stages gives the empty step sequence and no
\* error; a cell that decodes strictly gives the steps of its strict value, so
\* the apostrophes inside its strings are kept.
C4_TwoStageDecode ==
    pc = "return_parse" =>
        /\ Blankish => parsed = Returned(<<>>)
        /\ (~Blankish /\ ~Strict.ok /\ ~Relaxed.ok) => parsed = Returned(<<>>)
        /\ (~Blankish /\ Strict.ok) => parsed = StepsOf(Strict.v)
        /\ (~Blankish /\ ~Strict.ok /\ Relaxed.ok) => parsed = StepsOf(Relaxed.v)
        /\ cell = Text(ArrayText(<<E_apos>>, <<",">>)) =>
                parsed = Returned(<<[step |-> PyInt(3), action |-> <<"i", "t", "'", "s">>,
                                     data |-> <<>>, expected |-> <<>>]>>)
        /\ cell = Text(ArrayText(<<E_single>>, <<",">>)) =>
                parsed = Returned(<<[step |-> PyInt(2), action |-> <<"A">>,
                                     data |-> <<>>, expected |-> <<>>]>>)

\* a strictly decodable cell whose apostrophe reached the output
C4_Witness ==
    /\ pc = "return_parse"
    /\ ~Blankish /\ Strict.ok
    /\ HasApostrophe(cell.s)
    /\ ~parsed.raised
    /\ \E i \in 1..Len(parsed.out) : HasApostrophe(parsed.out[i].action)

\* the array a cell decodes to
DecodedArray == IF Strict.ok THEN Strict.v ELSE Relaxed.v
DecodesToArray ==
    /\ ~Blankish
    /\ Strict.ok \/ Relaxed.ok
    /\ DecodedArray.t = "list"

\* an element whose fields cannot be read: not an object, or an object whose
\* fields member is not an object
Malformed(item) ==
    \/ item.t # "dict"
    \/ DictGet(item, K_fields, PyDict(<<>>)).t # "dict"

\* C5: a cell that decodes to an array gives one step per element and raises
\* nothing, whatever the elements are; an element that is not an object, or
\* whose fields value is not an object, gives a step with empty Action, Data
\* and Expected Result.
C5_EveryElementGivesAStep ==
    (pc = "return_parse" /\ DecodesToArray) =>
        /\ ~parsed.raised
        /\ Len(parsed.out) = Len(DecodedArray.items)
        /\ \A i \in 1..Len(DecodedArray.items) :
            Malformed(DecodedArray.items[i]) =>
                /\ parsed.out[i].action = <<>>
                /\ parsed.out[i].data = <<>>
                /\ parsed.out[i].expected = <<>>

(***************************************************************************)
(* Properties of the collapse transform (checked under SpecCollapse).      *)
(***************************************************************************)
\* the column labels of a flat table
Columns == {FlatColumns[k] : k \in 1..Len(FlatColumns)}

Collapsing == pc = "return_collapse" /\ c_df # <<>> /\ c_group \in Columns

\* two group-key values are the same value; a missing value equals nothing
SameKey(a, b) == ~a.na /\ ~b.na /\ a = b

\* row i of the result has every column to blank set to the empty string
Blanked(i) == \A c \in ColsToBlank : c_out[i][c] = Text(<<>>)

\* C6 as stated: a row is blanked exactly when the row immediately before it
\* has the same group-key value, so for keys A, B, A no row is blanked.
C6_BlankedIffPreviousRowSameKey ==
    Collapsing =>
        \A i \in 1..Len(c_out) :
            Blanked(i) <=> (i > 1 /\ SameKey(c_df[i - 1][c_group], c_df[i][c_group]))

\* C6 amended: a row is blanked exactly when some earlier row, adjacent or
\* not, has the same group-key value; rows whose group key is missing are
\* never blanked.
C6_BlankedIffEarlierRowSameKey ==
    Collapsing =>
        \A i \in 1..Len(c_out) :
            Blanked(i) <=>
                \E j \in 1..(i - 1) : SameKey(c_df[j][c_group], c_df[i][c_group])

\* keys A, B, A: the third row is blanked although the row before it differs
C6_Witness ==
    /\ pc = "return_collapse" /\ c_group = "Issue key"
    /\ Len(c_df) = 3
    /\ SameKey(c_df[1][c_group], c_df[3][c_group])
    /\ ~c_df[2][c_group].na /\ c_df[2][c_group] # c_df[1][c_group]
    /\ ~Blanked(1) /\ ~Blanked(2) /\ Blanked(3)

\* row i is the first row holding its group-key value, or holds none
FirstOfGroup(i) ==
    \A j \in 1..(i - 1) : ~SameKey(c_df[j][c_group], c_df[i][c_group])

\* C7: the result has the rows of the input in the same order, every cell
\* outside the columns to blank is unchanged, the first row of every group is
\* unchanged in all columns, and the call returns its input when the table is
\* empty or has no group column.
C7_CollapseFrame ==
    pc = "return_collapse" =>
        /\ Len(c_out) = Len(c_df)
        /\ \A i \in 1..Len(c_df) :
            /\ DOMAIN c_out[i] = DOMAIN c_df[i]
            /\ \A c \in Columns \ ColsToBlank : c_out[i][c] = c_df[i][c]
            /\ (c_group \in Columns /\ FirstOfGroup(i)) => c_out[i] = c_df[i]
        /\ (c_df = <<>> \/ c_group \notin Columns) => c_out = c_df

\* a call that blanked a row and left its other columns and the group's first
\* row as they were
C7_Witness ==
    /\ pc = "return_collapse" /\ c_group \in Columns
    /\ \E i \in 2..Len(c_df) :
        /\ c_out[i] # c_df[i]
        /\ c_out[i]["Step #"] = PyInt(i)
        /\ c_out[i]["Action"] = <<"a">>
        /\ c_out[1] = c_df[1]

(***************************************************************************)
(* Properties of the script run (checked under Spec).                      *)
(***************************************************************************)
Matches(col, needle) == Contains(lower(col), lower(needle))

\* the first column whose name holds the needle, <<>> when none does
FirstMatch(cols, needle) ==
    IF \E i \in 1..Len(cols) : Matches(cols[i], needle)
    THEN cols[CHOOSE i \in 1..Len(cols) :
                /\ Matches(cols[i], needle)
                /\ \A j \in 1..(i - 1) : ~Matches(cols[j], needle)]
    ELSE <<>>

SomeMatch(needle) ==
    \E i \in 1..Len(uploaded.header) : Matches(uploaded.header[i], needle)

\* the labels no column of the upload resolves
Unresolved ==
    (IF SomeMatch(N_steps) THEN {} ELSE {"Manual Test Steps"})
        \cup (IF SomeMatch(N_issue_key) \/ SomeMatch(N_key) THEN {} ELSE {"Issue key"})
        \cup (IF SomeMatch(N_summary) THEN {} ELSE {"Summary"})

Detected == pc \notin {"uploaded", "loaded"}
PastValidation == Detected /\ pc # "stopped"

\* C8: a run with an unresolved step, key or summary column stops at the
\* validation with exactly the unresolved labels listed, and nothing is
\* flattened, collapsed or serialized in it; the run goes past the validation
\* only when the three columns are resolved.
C8_ValidationStopsTheRun ==
    /\ (Detected /\ Unresolved # {}) => pc = "stopped"
    /\ pc = "stopped" =>
        /\ missing # <<>>
        /\ {missing[i] : i \in 1..Len(missing)} = Unresolved
        /\ Len(missing) = Cardinality(Unresolved)
        /\ flat = <<>> /\ csv_semicolon = <<>> /\ csv_comma = <<>>
        /\ error = ""
    /\ PastValidation =>
        /\ Unresolved = {} /\ missing = <<>>
        /\ col_steps # <<>> /\ col_key # <<>> /\ col_sum # <<>>

\* a run stopped with more than one label listed
C8_Witness ==
    /\ pc = "stopped"
    /\ Len(missing) >= 2
    /\ uploaded.header # <<>>

BOMBytes == <<239, 187, 191>>

\* the bytes of the seven column labels
HeaderBytes ==
    <<<<67, 97, 115, 101, 32, 35>>,
      <<73, 115, 115, 117, 101, 32, 107, 101, 121>>,
      <<83, 117, 109, 109, 97, 114, 121>>,
      <<83, 116, 101, 112, 32, 35>>,
      <<65, 99, 116, 105, 111, 110>>,
      <<68, 97, 116, 97>>,
      <<69, 120, 112, 101, 99, 116, 101, 100, 32, 82, 101, 115, 117, 108, 116>>>>

\* the header line with the given delimiter byte, the line feed included
HeaderLine(sep) == Join(HeaderBytes, <<sep>>) \o <<10>>

StartsWithMarkThenHeader(bytes, sep) ==
    /\ Len(bytes) >= 3 + Len(HeaderLine(sep))
    /\ SubSeq(bytes, 1, 3) = BOMBytes
    /\ SubSeq(bytes, 4, 3 + Len(HeaderLine(sep))) = HeaderLine(sep)
    /\ \A i \in 2..(Len(bytes) - 2) : SubSeq(bytes, i, i + 2) # BOMBytes

\* C9: the bytes df_to_csv_bom returns start with EF BB BF, the header row
\* joined by the delimiter follows at once, and the mark occurs nowhere else.
C9_MarkOnceThenHeader ==
    pc = "done" =>
        /\ StartsWithMarkThenHeader(csv_semicolon, 59)
        /\ StartsWithMarkThenHeader(csv_comma, 44)

\* both files serialized from a table of several rows
C9_Witness ==
    /\ pc = "done"
    /\ Len(flat) >= 2
    /\ SubSeq(csv_semicolon, 1, 3) = BOMBytes
    /\ SubSeq(csv_comma, 1, 3) = BOMBytes
    /\ csv_semicolon # csv_comma

=============================================================================
